---- MODULE Spec2Model ----
(***************************************************************************)
(* State-machine model of YaPanoramaComponent                              *)
(* (projects/angular8-yandex-maps/src/lib/components/ya-panorama/          *)
(* ya-panorama.component.ts): the widget's lifecycle hooks, the            *)
(* asynchronous construction of the native panorama player, the            *)
(* reconciliation of input changes and the bridge from native events to    *)
(* the widget's output channels.  The script service, the native API       *)
(* (ymaps.panorama.locate, panorama.Player, player.events) and the host    *)
(* framework (which delivers lifecycle hooks and change sets) are the      *)
(* environment.                                                            *)
(***************************************************************************)
EXTENDS Naturals, Sequences, FiniteSets

\* ------------------------------------------------------------------ bounds

\* Calls the host makes on mounted widgets over one run (all widgets
\* together): change sets it delivers and calls of the public
\* addEventListeners().
MaxHostCalls == 1

\* Native event occurrences over one run (all entities together).
MaxEvents == 1

\* ------------------------------------------------------------------ values

\* The widgets mounted in the process.
Widgets == {"A", "B"}

\* An input that was never bound (undefined / null).
NoValue == "undefined"

Points == {"p1", "p2"}
Layers == {"yandex#panorama", "yandex#airPanorama"}
OptionBags == {"o1", "o2"}

\* The declarative inputs of the widget.
InputNames == {"point", "layer", "options"}

\* Values the host may bind to each input.
InputValues(f) ==
    CASE f = "point"   -> Points
      [] f = "layer"   -> Layers
      [] f = "options" -> OptionBags

\* The values the inputs are first bound with: the point may be missing,
\* the layer and the options are given.
InitialInputs ==
    {[point |-> p, layer |-> "yandex#panorama", options |-> "o1"] :
        p \in {"p1", NoValue}}

\* No player: the initial (undefined) value of _player.
NoPlayer == 0

\* Messages of the errors the component throws.
PointRequired == "Point is required"
LayerError == "The layer can't be changed without a point"
OptionsError == "The options can't be changed after entity init"
\* this._sub.unsubscribe() with _sub never assigned.
SubUndefinedError == "TypeError: _sub is undefined"
\* player.events read with _player never assigned.
PlayerUndefinedError == "TypeError: player is undefined"
NoError == "none"

\* ------------------------------------------------------------------ state

VARIABLES
    loadState,  \* script service: NotStarted, Loading, Ready, Failed
    loads,      \* number of times the script-loading side effect happened
    input,      \* input[w][f]: the current value of input f of widget w
    sub,        \* sub[w]: this._sub: "undefined", "open", "closed"
    wait,       \* wait[w]: the subscription to initScript()
    locate,     \* locate[w]: the pending ymaps.panorama.locate call
    player,     \* player[w]: this._player (an index of players, or NoPlayer)
    players,    \* the native players constructed so far, in order
    destroyed,  \* destroyed[w]: ngOnDestroy has run
    disposedIn, \* disposedIn[w]: the lifecycle state w was in when it ran
    out,        \* the emissions on the widgets' output channels, in order
    fired,      \* the native event occurrences, in order, each with whether
                \* the widget of the player was already disposed
    nchanges,   \* change sets delivered so far
    nlistens,   \* calls of addEventListeners() the host made so far
    thrown      \* the error the last hook or callback threw (NoError if none)

vars == <<loadState, loads, input, sub, wait, locate, player, players,
          destroyed, disposedIn, out, fired, nchanges, nlistens, thrown>>

\* ------------------------------------------------------------------ helpers

NoLocate == [st |-> "none", point |-> NoValue, layer |-> NoValue]

\* ------------------------------------------------------------------ script service

\* ScriptService.initScript(): the first call starts the (single) load;
\* every later call shares it.
InitScriptState(ls) == IF ls = "NotStarted" THEN "Loading" ELSE ls

InitScriptLoads(ls, n) == IF ls = "NotStarted" THEN n + 1 ELSE n

\* ------------------------------------------------------------------ reconciliation

MoveTo(p) == [op |-> "moveTo", arg |-> p]

\* _updatePanorama without the call of moveTo.
UpdatePanoramaNoMove(pl, cs, cur) ==
    IF pl = NoPlayer
    THEN [calls |-> <<>>, err |-> NoError]
    ELSE IF "layer" \in cs /\ "point" \notin cs
         THEN [calls |-> <<>>, err |-> LayerError]
         ELSE IF "options" \in cs
              THEN [calls |-> <<>>, err |-> OptionsError]
              ELSE [calls |-> <<>>, err |-> NoError]

\* _updatePanorama handing changed options to the player instead of
\* rejecting them.
UpdatePanoramaSetsOptions(pl, cs, cur) ==
    IF pl = NoPlayer
    THEN [calls |-> <<>>, err |-> NoError]
    ELSE LET moved == IF "point" \in cs THEN <<MoveTo(cur["point"])>> ELSE <<>>
             opts == IF "options" \in cs
                     THEN <<[op |-> "setOptions", arg |-> cur["options"]]>>
                     ELSE <<>>
         IN  IF "layer" \in cs /\ "point" \notin cs
             THEN [calls |-> moved, err |-> LayerError]
             ELSE [calls |-> moved \o opts, err |-> NoError]

\* _updatePanorama without the check of the layer.
UpdatePanoramaNoLayerCheck(pl, cs, cur) ==
    IF pl = NoPlayer
    THEN [calls |-> <<>>, err |-> NoError]
    ELSE LET moved == IF "point" \in cs THEN <<MoveTo(cur["point"])>> ELSE <<>>
         IN  IF "options" \in cs
             THEN [calls |-> moved, err |-> OptionsError]
             ELSE [calls |-> moved, err |-> NoError]

\* _updatePanorama without the early return for a widget without player.
UpdatePanoramaNoGuard(pl, cs, cur) ==
    LET moved == IF "point" \in cs THEN <<MoveTo(cur["point"])>> ELSE <<>>
    IN  IF "layer" \in cs /\ "point" \notin cs
        THEN [calls |-> moved, err |-> LayerError]
        ELSE IF "options" \in cs
             THEN [calls |-> moved, err |-> OptionsError]
             ELSE [calls |-> moved, err |-> NoError]

\* _updatePanorama(changes) on a widget whose _player is pl: the native
\* calls it makes on the player, in order, and the error it throws.  cs is
\* the set of the inputs in the change set and cur their current values.
UpdatePanorama(pl, cs, cur) ==
    IF pl = NoPlayer
    THEN [calls |-> <<>>, err |-> NoError]
    ELSE LET moved == IF "point" \in cs THEN <<MoveTo(cur["point"])>> ELSE <<>>
         IN  IF "layer" \in cs /\ "point" \notin cs
             THEN [calls |-> moved, err |-> LayerError]
             ELSE IF "options" \in cs
                  THEN [calls |-> moved, err |-> OptionsError]
                  ELSE [calls |-> moved, err |-> NoError]

\* _checkRequiredInputs without its check.
CheckRequiredInputsAcceptsAll(p) == NoError

\* _checkRequiredInputs(): the error it throws.
CheckRequiredInputs(p) == IF p = NoValue THEN PointRequired ELSE NoError

\* ------------------------------------------------------------------ event bridge

\* The listeners table of addEventListeners: native event name and the
\* output channel (emitter) it is republished on.
Listeners ==
    << [name |-> "destroy",          emitter |-> "destroy"],
       [name |-> "directionchange",  emitter |-> "directionchange"],
       [name |-> "error",            emitter |-> "yaerror"],
       [name |-> "fullscreenenter",  emitter |-> "fullscreenenter"],
       [name |-> "fullscreenexit",   emitter |-> "fullscreenexit"],
       [name |-> "markercollapse",   emitter |-> "markercollapse"],
       [name |-> "markerexpand",     emitter |-> "markerexpand"],
       [name |-> "markermouseenter", emitter |-> "markermouseenter"],
       [name |-> "markermouseleave", emitter |-> "markermouseleave"],
       [name |-> "panoramachange",   emitter |-> "panoramachange"],
       [name |-> "spanchange",       emitter |-> "spanchange"] >>

\* The names of the events a native player fires.
NativeEventNames == {Listeners[i].name : i \in 1..Len(Listeners)}

\* The events the players fire in the runs explored: the one whose channel
\* is named differently and one whose channel has its own name.
FiredNames == {"error", "spanchange"}

\* addEventListeners() of widget w whose _player is pl: the handlers it
\* registers with player.events.add, in order.  Each handler emits on the
\* emitter of w with the player captured at registration as target.
AddEventListeners(w, pl) ==
    [i \in 1..Len(Listeners) |->
        [name |-> Listeners[i].name, w |-> w,
         emitter |-> Listeners[i].emitter, target |-> pl]]

\* A ready emission that does not carry the player just constructed.
ReadyEmissionWrongTarget(w, pl) ==
    <<[w |-> w, channel |-> "ready", target |-> NoPlayer, event |-> 0]>>

\* The ready emission of _createPanorama.
ReadyEmission(w, pl) ==
    <<[w |-> w, channel |-> "ready", target |-> pl, event |-> 0]>>

\* The handler registered for one native event: the envelope it emits for
\* occurrence number k.
HandlerEmission(h, k) ==
    [w |-> h.w, channel |-> h.emitter, target |-> h.target, event |-> k]

\* The native event manager firing event n (occurrence number k) on a
\* player whose registered handlers are hs: every handler registered for n
\* runs, in registration order.
Fire(hs, n, k) ==
    LET matching == SelectSeq(hs, LAMBDA h : h.name = n)
    IN  [i \in 1..Len(matching) |-> HandlerEmission(matching[i], k)]

\* ------------------------------------------------------------------ teardown

\* Unsubscribe, had _initScript not added its subscription to _sub.
UnsubscribeLeaks(ws) == ws

\* this._sub.unsubscribe(): what becomes of the subscription to
\* initScript() that _initScript added to _sub.
Unsubscribe(ws) == IF ws = "pending" THEN "cancelled" ELSE ws

\* ------------------------------------------------------------------ initial state

Init ==
    /\ loadState = "NotStarted"
    /\ loads = 0
    /\ input \in [Widgets -> InitialInputs]
    /\ sub = [w \in Widgets |-> "undefined"]
    /\ wait = [w \in Widgets |-> "none"]
    /\ locate = [w \in Widgets |-> NoLocate]
    /\ player = [w \in Widgets |-> NoPlayer]
    /\ players = <<>>
    /\ destroyed = [w \in Widgets |-> FALSE]
    /\ disposedIn = [w \in Widgets |-> "none"]
    /\ out = <<>>
    /\ fired = <<>>
    /\ nchanges = 0
    /\ nlistens = 0
    /\ thrown = NoError

\* ------------------------------------------------------------------ actions

\* ngOnInit without the call of _initScript.
NgOnInitSkipsScript(w) ==
    /\ sub[w] = "undefined"
    /\ ~destroyed[w]
    /\ sub' = [sub EXCEPT ![w] = "open"]
    /\ thrown' = CheckRequiredInputs(input[w]["point"])
    /\ UNCHANGED <<loadState, loads, wait, input, locate, player, players,
                   destroyed, disposedIn, out, fired, nchanges, nlistens>>

\* ngOnInit(): creates _sub, checks the required inputs, subscribes to the
\* script service.
NgOnInit(w) ==
    /\ sub[w] = "undefined"
    /\ ~destroyed[w]
    /\ sub' = [sub EXCEPT ![w] = "open"]
    /\ LET err == CheckRequiredInputs(input[w]["point"])
       IN  /\ IF err = NoError
              THEN /\ loadState' = InitScriptState(loadState)
                   /\ loads' = InitScriptLoads(loadState, loads)
                   /\ wait' = [wait EXCEPT ![w] = "pending"]
              ELSE UNCHANGED <<loadState, loads, wait>>
           /\ thrown' = err
    /\ UNCHANGED <<input, locate, player, players, destroyed, disposedIn, out, fired, nchanges, nlistens>>

\* The script finished loading.
ScriptLoaded ==
    /\ loadState = "Loading"
    /\ loadState' = "Ready"
    /\ thrown' = NoError
    /\ UNCHANGED <<loads, input, sub, wait, locate, player, players, destroyed,
                   disposedIn, out, fired, nchanges, nlistens>>

\* The script failed to load.
ScriptFailed ==
    /\ loadState = "Loading"
    /\ loadState' = "Failed"
    /\ thrown' = NoError
    /\ UNCHANGED <<loads, input, sub, wait, locate, player, players, destroyed,
                   disposedIn, out, fired, nchanges, nlistens>>

\* The subscriber of _initScript, were it to run again on a signal that
\* is repeated.
ReadyCallbackRepeats(w) ==
    /\ loadState = "Ready"
    /\ wait[w] \in {"pending", "delivered"}
    /\ locate[w].st # "pending"
    /\ wait' = [wait EXCEPT ![w] = "delivered"]
    /\ locate' = [locate EXCEPT ![w] =
                    [st |-> "pending", point |-> input[w]["point"],
                     layer |-> input[w]["layer"]]]
    /\ thrown' = NoError
    /\ UNCHANGED <<loadState, loads, input, sub, player, players, destroyed,
                   disposedIn, out, fired, nchanges, nlistens>>

\* The subscriber of _initScript runs: _createPanorama(id) calls
\* ymaps.panorama.locate with the current point and layer.
ReadyCallback(w) ==
    /\ loadState = "Ready"
    /\ wait[w] = "pending"
    /\ wait' = [wait EXCEPT ![w] = "delivered"]
    /\ locate' = [locate EXCEPT ![w] =
                    [st |-> "pending", point |-> input[w]["point"],
                     layer |-> input[w]["layer"]]]
    /\ thrown' = NoError
    /\ UNCHANGED <<loadState, loads, input, sub, player, players, destroyed,
                   disposedIn, out, fired, nchanges, nlistens>>

\* The script service signals the failure to a waiting subscriber; the
\* subscriber of _initScript has no error handler.
ErrorCallback(w) ==
    /\ loadState = "Failed"
    /\ wait[w] = "pending"
    /\ wait' = [wait EXCEPT ![w] = "errored"]
    /\ thrown' = "ScriptLoadError"
    /\ UNCHANGED <<loadState, loads, input, sub, locate, player, players,
                   destroyed, disposedIn, out, fired, nchanges, nlistens>>

\* What the subscriber of the ready channel does with the player it is
\* handed, synchronously, inside ready.emit: nothing, or something that
\* makes the player fire a native event (target.destroy(), for one), or it
\* binds a new point, which the host delivers as a change set of the point
\* alone before ready.emit returns.
ReadyHandlerActs == {"none"} \cup FiredNames \cup Points

\* _player as a hook running inside ready.emit reads it, had the callback
\* stored the player only after emitting ready.
StoredPlayerLate(pl) == NoPlayer

\* _player as a hook running inside ready.emit reads it: the callback has
\* stored the player it constructed before it emits ready.
StoredPlayer(pl) == pl

\* The locate promise resolves and its callback runs: it constructs the
\* player with the current options, stores it in _player, emits ready
\* (whose subscriber does rh) and registers the native listeners.
LocateResolve(w, rh) ==
    /\ locate[w].st = "pending"
    /\ rh \in FiredNames => Len(fired) < MaxEvents
    /\ rh \in Points => (~destroyed[w] /\ nchanges + nlistens < MaxHostCalls /\ rh # input[w]["point"])
    /\ LET pl == Len(players) + 1
           cur == IF rh \in Points THEN [input[w] EXCEPT !["point"] = rh] ELSE input[w]
           res == IF rh \in Points
                  THEN UpdatePanorama(StoredPlayer(pl), {"point"}, cur)
                  ELSE [calls |-> <<>>, err |-> NoError]
           built == [container |-> w, options |-> input[w]["options"],
                     calls |-> res.calls, handlers |-> <<>>]
           k == Len(fired) + 1
           emitted == IF rh \in FiredNames THEN Fire(built.handlers, rh, k) ELSE <<>>
       IN  /\ locate' = [locate EXCEPT ![w].st = "resolved"]
           /\ player' = [player EXCEPT ![w] = pl]
           /\ out' = out \o ReadyEmission(w, pl) \o emitted
           /\ fired' = IF rh \in FiredNames
                       THEN Append(fired, [entity |-> pl, name |-> rh, disposed |-> destroyed[w]])
                       ELSE fired
           /\ input' = [input EXCEPT ![w] = cur]
           /\ nchanges' = IF rh \in Points THEN nchanges + 1 ELSE nchanges
           /\ players' = Append(players,
                            [built EXCEPT !.handlers = @ \o AddEventListeners(w, pl)])
           /\ thrown' = NoError
    /\ UNCHANGED <<loadState, loads, sub, wait, destroyed, disposedIn, nlistens>>

\* The locate promise is rejected, or the Player constructor throws: the
\* rest of the callback does not run and nothing catches the error.
LocateFails(w) ==
    /\ locate[w].st = "pending"
    /\ locate' = [locate EXCEPT ![w].st = "rejected"]
    /\ thrown' = "NativeConstructionError"
    /\ UNCHANGED <<loadState, loads, input, sub, wait, player, players, destroyed,
                   disposedIn, out, fired, nchanges, nlistens>>

\* The host binds new values to the inputs in cs and calls
\* ngOnChanges(changes), which calls _updatePanorama(changes).
NgOnChanges(w, cs, vals) ==
    /\ ~destroyed[w]
    /\ nchanges + nlistens < MaxHostCalls
    /\ \A f \in cs : vals[f] # input[w][f]
    /\ LET cur == [f \in InputNames |-> IF f \in cs THEN vals[f] ELSE input[w][f]]
           res == UpdatePanorama(player[w], cs, cur)
       IN  /\ input' = [input EXCEPT ![w] = cur]
           /\ players' = IF player[w] = NoPlayer THEN players
                         ELSE [players EXCEPT ![player[w]].calls = @ \o res.calls]
           /\ thrown' = res.err
    /\ nchanges' = nchanges + 1
    /\ UNCHANGED <<loadState, loads, sub, wait, locate, player, destroyed,
                   disposedIn, out, fired, nlistens>>

\* The native player e fires event n: the handlers registered for n run.
NativeEvent(e, n) ==
    /\ e \in 1..Len(players)
    /\ Len(fired) < MaxEvents
    /\ fired' = Append(fired, [entity |-> e, name |-> n,
                               disposed |-> destroyed[players[e].container]])
    /\ out' = out \o Fire(players[e].handlers, n, Len(fired) + 1)
    /\ thrown' = NoError
    /\ UNCHANGED <<loadState, loads, input, sub, wait, locate, player, players,
                   destroyed, disposedIn, nchanges, nlistens>>

\* The lifecycle state of widget w (Uninitialized, AwaitingScript,
\* Constructing, Ready, Failed), read off its fields.
Phase(w) ==
    IF sub[w] = "undefined" THEN "Uninitialized"
    ELSE IF player[w] # NoPlayer THEN "Ready"
    ELSE IF locate[w].st = "pending" THEN "Constructing"
    ELSE IF wait[w] = "pending" THEN "AwaitingScript"
    ELSE "Failed"

\* ngOnDestroy(): this._sub.unsubscribe().
NgOnDestroy(w) ==
    /\ ~destroyed[w]
    /\ destroyed' = [destroyed EXCEPT ![w] = TRUE]
    /\ disposedIn' = [disposedIn EXCEPT ![w] = Phase(w)]
    /\ IF sub[w] = "undefined"
       THEN /\ UNCHANGED <<sub, wait>>
            /\ thrown' = SubUndefinedError
       ELSE /\ sub' = [sub EXCEPT ![w] = "closed"]
            /\ wait' = [wait EXCEPT ![w] = Unsubscribe(wait[w])]
            /\ thrown' = NoError
    /\ UNCHANGED <<loadState, loads, input, locate, player, players, out, fired,
                   nchanges, nlistens>>

\* The host calls the public addEventListeners() of widget w: with no
\* player stored, reading player.events throws before anything is
\* registered; with a player, the whole table is registered once more,
\* whether or not the widget was disposed.
AddEventListenersCall(w) ==
    /\ nchanges + nlistens < MaxHostCalls
    /\ nlistens' = nlistens + 1
    /\ IF player[w] = NoPlayer
       THEN /\ thrown' = PlayerUndefinedError
            /\ UNCHANGED players
       ELSE /\ players' = [players EXCEPT ![player[w]].handlers =
                                @ \o AddEventListeners(w, player[w])]
            /\ thrown' = NoError
    /\ UNCHANGED <<loadState, loads, input, sub, wait, locate, player, destroyed,
                   disposedIn, out, fired, nchanges>>

\* The change sets the host can deliver: a non-empty set of inputs and a
\* new value for each.
ChangeSets == SUBSET InputNames \ {{}}

ValuesOf(cs) == {v \in [cs -> Points \cup Layers \cup OptionBags \cup {NoValue}] :
                    \A f \in cs : v[f] \in InputValues(f)}

Next ==
    \/ \E w \in Widgets : NgOnInit(w)
    \/ ScriptLoaded
    \/ ScriptFailed
    \/ \E w \in Widgets : ReadyCallback(w)
    \/ \E w \in Widgets : ErrorCallback(w)
    \/ \E w \in Widgets : \E rh \in ReadyHandlerActs : LocateResolve(w, rh)
    \/ \E w \in Widgets : LocateFails(w)
    \/ \E w \in Widgets : \E cs \in ChangeSets : \E vals \in ValuesOf(cs) :
            NgOnChanges(w, cs, vals)
    \/ \E e \in 1..Len(players) : \E n \in FiredNames : NativeEvent(e, n)
    \/ \E w \in Widgets : NgOnDestroy(w)
    \/ \E w \in Widgets : AddEventListenersCall(w)

Spec == Init /\ [][Next]_vars

\* The readiness signal of a loaded script reaches every subscriber that
\* stays subscribed: the callback of an open subscription is not put off
\* for ever.
FairSpec == Spec /\ \A w \in Widgets : WF_vars(ReadyCallback(w))

\* ------------------------------------------------------------------ properties

\* The ready emissions of widget w, in order.
ReadiesOf(w) == SelectSeq(out, LAMBDA m : m.w = w /\ m.channel = "ready")

\* The native players constructed for widget w.
EntitiesOf(w) == {e \in 1..Len(players) : players[e].container = w}

\* Nothing was ever constructed for widget w: no locate call, no player, no
\* ready emission, no native listener.
NothingConstructed(w) ==
    /\ locate[w].st = "none"
    /\ player[w] = NoPlayer
    /\ EntitiesOf(w) = {}
    /\ ReadiesOf(w) = <<>>

\* C1: a widget disposed while it awaits the script never gets a locate
\* call, a player or a ready emission, whatever happens afterwards
\* (readiness delivered included), and that disposal throws nothing.
C1_DisposedWhileAwaiting ==
    /\ [](\A w \in Widgets : disposedIn[w] = "AwaitingScript" => NothingConstructed(w))
    /\ [][\A w \in Widgets :
            (disposedIn[w] = "none" /\ disposedIn'[w] = "AwaitingScript")
                => thrown' = NoError]_vars

\* C1 witness: a widget was disposed while awaiting and the script became
\* ready afterwards, its sibling having received the readiness signal.
C1_Witness ==
    \E w \in Widgets : \E v \in Widgets \ {w} :
        /\ disposedIn[w] = "AwaitingScript"
        /\ wait[w] = "cancelled"
        /\ loadState = "Ready"
        /\ wait[v] = "delivered"

\* C2: a construction callback that arrives after the widget was disposed
\* is a no-op: a widget disposed before its player exists never gets a
\* player, a ready emission or native listeners.
C2_NoConstructionAfterDisposal ==
    \A w \in Widgets :
        disposedIn[w] \in {"AwaitingScript", "Constructing"} =>
            /\ player[w] = NoPlayer
            /\ EntitiesOf(w) = {}
            /\ ReadiesOf(w) = <<>>

\* The step is a reconciliation pass of widget w, which holds a player.
ReconcilesPlayer(w) ==
    /\ nchanges' = nchanges + 1
    /\ input'[w] # input[w]
    /\ player[w] # NoPlayer

\* The inputs the change set of the step holds.
Changed(w) == {f \in InputNames : input'[w][f] # input[w][f]}

\* The native calls the step makes on the player of widget w.
NewCalls(w) ==
    SubSeq(players'[player[w]].calls, Len(players[player[w]].calls) + 1,
           Len(players'[player[w]].calls))

\* C3: a reconciliation pass whose change set holds a rejection-worthy
\* field (options, or layer without point) throws and makes no native
\* call on the player.
C3_AllOrNothing ==
    [][\A w \in Widgets :
        (/\ ReconcilesPlayer(w)
         /\ \/ "options" \in Changed(w)
            \/ ("layer" \in Changed(w) /\ "point" \notin Changed(w)))
        => (thrown' # NoError /\ NewCalls(w) = <<>>)]_vars

\* C4: a native event fired by the player of a widget disposed in Ready
\* produces no emission on the widget's output channels.
C4_DroppedAfterDisposal ==
    \A k \in 1..Len(fired) :
        (fired[k].disposed /\ disposedIn[players[fired[k].entity].container] = "Ready")
            => \A i \in 1..Len(out) : out[i].event # k

\* C5: disposing a widget that holds a player calls the player's destroy
\* method and leaves the widget without a live subscription: no readiness
\* wait and no native listener.
C5_DisposalReleasesEntity ==
    \A w \in Widgets :
        disposedIn[w] = "Ready" =>
            /\ \E i \in 1..Len(players[player[w]].calls) :
                    players[player[w]].calls[i].op = "destroy"
            /\ players[player[w]].handlers = <<>>
            /\ wait[w] # "pending"

\* C6: the ready emissions are exactly one per player constructed, in the
\* order of construction, each on the channel of the widget the player was
\* constructed for and with that player as target.
C6_ReadyOncePerConstruction ==
    LET readies == SelectSeq(out, LAMBDA m : m.channel = "ready")
    IN  /\ Len(readies) = Len(players)
        /\ \A e \in 1..Len(readies) :
                /\ readies[e].target = e
                /\ readies[e].w = players[e].container

\* C6 witness: a widget whose player was constructed, then moved by an
\* input change, then fired an event, was disposed, with one ready emitted.
C6_Witness ==
    \E w \in Widgets :
        /\ player[w] # NoPlayer
        /\ players[player[w]].calls # <<>>
        /\ \E k \in 1..Len(fired) : fired[k].entity = player[w]
        /\ disposedIn[w] = "Ready"
        /\ Len(ReadiesOf(w)) = 1

\* The output channel a native event is mapped to.
ChannelOf(n) == IF n = "error" THEN "yaerror" ELSE n

\* The emissions caused by native events, in order.
Envelopes == SelectSeq(out, LAMBDA m : m.channel # "ready")

\* C7: every native event a player fires before its widget is disposed
\* yields exactly one envelope, on the channel mapped to the event, with
\* the player as target, and the envelopes are in the order of the events.
C7_OneEnvelopePerEvent ==
    /\ \A k \in 1..Len(fired) :
        ~fired[k].disposed =>
            SelectSeq(out, LAMBDA m : m.event = k) =
                <<[w |-> players[fired[k].entity].container,
                   channel |-> ChannelOf(fired[k].name),
                   target |-> fired[k].entity, event |-> k]>>
    /\ \A i, j \in 1..Len(Envelopes) :
        i < j => Envelopes[i].event <= Envelopes[j].event

\* C8: a change set holding only the point, given to a widget with a
\* player, makes exactly one native call, moveTo with the new point,
\* throws nothing, constructs no player and emits nothing.
C8_PointOnlyMoves ==
    [][\A w \in Widgets :
        (ReconcilesPlayer(w) /\ Changed(w) = {"point"})
        => /\ NewCalls(w) = <<MoveTo(input'[w]["point"])>>
           /\ thrown' = NoError
           /\ player' = player
           /\ Len(players') = Len(players)
           /\ out' = out]_vars

\* C8 witness: the one change set delivered changed the point alone and
\* the player of the widget received moveTo with the current point.
C8_Witness ==
    \E w \in Widgets :
        /\ player[w] # NoPlayer
        /\ nchanges = 1
        /\ input[w] = [point |-> "p2", layer |-> "yandex#panorama", options |-> "o1"]
        /\ players[player[w]].calls = <<MoveTo("p2")>>
        /\ thrown = NoError

\* C9: a change set holding the options, given to a widget with a player,
\* throws; the only calls the player receives are moveTo with the point,
\* and the player keeps the options it was constructed with.
C9_OptionsRejected ==
    [][\A w \in Widgets :
        (ReconcilesPlayer(w) /\ "options" \in Changed(w))
        => /\ thrown' # NoError
           /\ \A i \in 1..Len(NewCalls(w)) :
                NewCalls(w)[i] = MoveTo(input'[w]["point"])
           /\ players'[player[w]].options = players[player[w]].options]_vars

\* C9 witness: the options of a widget with a player were changed and the
\* pass threw the options error.
C9_Witness ==
    \E w \in Widgets :
        /\ player[w] # NoPlayer
        /\ nchanges = 1
        /\ input[w]["options"] = "o2"
        /\ players[player[w]].options = "o1"
        /\ thrown = OptionsError

\* C10: a change set holding the layer without the point, given to a
\* widget with a player, throws and makes no native call; one holding both
\* does not throw the layer error.
C10_LayerNeedsPoint ==
    [][\A w \in Widgets :
        ReconcilesPlayer(w) =>
            /\ ("layer" \in Changed(w) /\ "point" \notin Changed(w))
                => (thrown' # NoError /\ NewCalls(w) = <<>>)
            /\ ("layer" \in Changed(w) /\ "point" \in Changed(w))
                => thrown' # LayerError]_vars

\* C10 witness: the layer of a widget with a player was changed without
\* its point and the pass threw the layer error.
C10_Witness ==
    \E w \in Widgets :
        /\ player[w] # NoPlayer
        /\ nchanges = 1
        /\ input[w]["layer"] = "yandex#airPanorama"
        /\ input[w]["point"] = "p1"
        /\ players[player[w]].calls = <<>>
        /\ thrown = LayerError

\* C11: mounting a widget whose point is missing throws, registers no
\* readiness wait and touches neither the loader nor the native side;
\* such a widget never constructs anything, and disposing it throws
\* nothing.
C11_MountWithoutPointFails ==
    /\ [][\A w \in Widgets :
            (sub[w] = "undefined" /\ sub'[w] = "open" /\ input[w]["point"] = NoValue)
                => /\ thrown' = PointRequired
                   /\ wait'[w] = "none"
                   /\ loadState' = loadState /\ loads' = loads
                   /\ locate' = locate /\ players' = players /\ out' = out]_vars
    /\ [](\A w \in Widgets :
            (sub[w] # "undefined" /\ wait[w] = "none") => NothingConstructed(w))
    /\ [][\A w \in Widgets :
            (~destroyed[w] /\ destroyed'[w] /\ sub[w] = "open" /\ wait[w] = "none")
                => thrown' = NoError]_vars

\* C11 witness: a widget whose mount failed was given a point afterwards
\* and was disposed, the script being ready for its sibling.
C11_Witness ==
    \E w \in Widgets :
        /\ sub[w] = "closed"
        /\ wait[w] = "none"
        /\ input[w]["point"] # NoValue
        /\ loadState = "Ready"
        /\ thrown = NoError

\* The emissions on the channels of widget w, in order.
EmissionsOf(w) == SelectSeq(out, LAMBDA m : m.w = w)

\* The step leaves everything widget v owns as it was: its inputs, its
\* subscriptions, its pending calls, its player and what it emitted.
Untouched(v) ==
    /\ input'[v] = input[v]
    /\ sub'[v] = sub[v]
    /\ wait'[v] = wait[v]
    /\ locate'[v] = locate[v]
    /\ player'[v] = player[v]
    /\ destroyed'[v] = destroyed[v]
    /\ \A e \in EntitiesOf(v) : players'[e] = players[e]
    /\ SelectSeq(out', LAMBDA m : m.w = v) = EmissionsOf(v)

\* The construction of widget w failed: the script service signalled a
\* failure to it, or its locate call (or the Player constructor) failed.
ConstructionFailed(w) == wait[w] = "errored" \/ locate[w].st = "rejected"

\* C12: a widget whose construction failed holds no player and has emitted
\* no ready and no event, has its failure reported on one of its channels
\* and its subscriptions released as by ngOnDestroy; it stays failed, and
\* the step in which it fails leaves its siblings and the loader as they
\* were.
C12_FailedIsCleanedUp ==
    /\ [](\A w \in Widgets :
            ConstructionFailed(w) =>
                /\ player[w] = NoPlayer
                /\ EntitiesOf(w) = {}
                /\ ReadiesOf(w) = <<>>
                /\ EmissionsOf(w) # <<>>
                /\ sub[w] = "closed")
    /\ [][\A w \in Widgets :
            /\ ConstructionFailed(w) => ConstructionFailed(w)'
            /\ (~ConstructionFailed(w) /\ ConstructionFailed(w)')
                => /\ loadState' = loadState /\ loads' = loads
                   /\ \A v \in Widgets \ {w} : Untouched(v)]_vars

\* C13: mounting a widget (with its point) registers one readiness wait
\* for it and for no other widget; the script is loaded once, by the first
\* mount, however many widgets mount; and once the script is ready every
\* waiting widget gets the readiness signal unless it is disposed first:
\* a widget stops waiting on a loaded script only by receiving the signal
\* or by being disposed, and time and again no widget is waiting on a
\* loaded script (so none waits for ever).
C13_OneLoadManyWaits ==
    /\ [][\A w \in Widgets :
            (sub[w] = "undefined" /\ sub'[w] = "open" /\ input[w]["point"] # NoValue)
                => /\ wait[w] = "none" /\ wait'[w] = "pending"
                   /\ \A v \in Widgets \ {w} : wait'[v] = wait[v]
                   /\ loads' = IF loads = 0 THEN 1 ELSE loads]_vars
    /\ [](loads <= 1)
    /\ [](\A w \in Widgets : wait[w] # "none" => loads = 1)
    /\ [][\A w \in Widgets :
            (loadState = "Ready" /\ wait[w] = "pending" /\ wait'[w] # "pending")
                => (wait'[w] = "delivered" \/ destroyed'[w])]_vars
    /\ []<>(\A w \in Widgets : ~(loadState = "Ready" /\ wait[w] = "pending"))

\* C13 witness: both widgets mounted, the script was loaded once and both
\* received the readiness signal.
C13_Witness ==
    /\ \A w \in Widgets : wait[w] = "delivered" /\ ~destroyed[w]
    /\ loads = 1

\* The step is ngOnChanges of widget w, which holds no player, called on
\* its own (not from inside the callback that constructs the player).
ReconcilesWithoutPlayer(w) ==
    /\ nchanges' = nchanges + 1
    /\ input'[w] # input[w]
    /\ player[w] = NoPlayer
    /\ locate'[w] = locate[w]

\* C14: a change set given to a widget that holds no player does nothing
\* but bind the inputs: no native call, no error, nothing constructed or
\* emitted.
C14_NoPlayerNoReconciliation ==
    [][\A w \in Widgets :
        ReconcilesWithoutPlayer(w)
            => /\ thrown' = NoError
               /\ players' = players
               /\ player' = player
               /\ out' = out]_vars

\* C14 witness: the options of a widget were changed while its locate
\* call was pending, and nothing was thrown.
C14_Witness ==
    \E w \in Widgets :
        /\ locate[w].st = "pending"
        /\ player[w] = NoPlayer
        /\ nchanges = 1
        /\ input[w]["options"] = "o2"
        /\ thrown = NoError

\* The position the native side was last given for widget w: the argument
\* of the latest moveTo on its player, or the point passed to locate.
LastPosition(w) ==
    LET calls == players[player[w]].calls
    IN  IF calls # <<>> THEN calls[Len(calls)].arg ELSE locate[w].point

\* C15: when a widget gets its player, and after every later step that
\* throws nothing, the position last given to the native side is the
\* current point of the widget.
C15_NoPointChangeLost ==
    [][\A w \in Widgets :
        /\ (player[w] = NoPlayer /\ player'[w] # NoPlayer)
            => LastPosition(w)' = input'[w]["point"]
        /\ (/\ player[w] # NoPlayer
            /\ LastPosition(w) = input[w]["point"]
            /\ thrown' = NoError)
            => LastPosition(w)' = input'[w]["point"]]_vars

\* C16: a widget has at most one player constructed for it, and the player
\* it holds, once set, is that one for good.
C16_OnePlayerPerWidget ==
    /\ [](\A w \in Widgets :
            /\ Cardinality(EntitiesOf(w)) <= 1
            /\ player[w] # NoPlayer => EntitiesOf(w) = {player[w]}
            /\ player[w] = NoPlayer => EntitiesOf(w) = {})
    /\ [][\A w \in Widgets : player[w] # NoPlayer => player'[w] = player[w]]_vars

\* C16 witness: both widgets hold their player; one was moved by an input
\* change, one fired an event, and one was disposed.
C16_Witness ==
    /\ \A w \in Widgets : player[w] # NoPlayer
    /\ \E w \in Widgets : players[player[w]].calls # <<>>
    /\ fired # <<>>
    /\ \E w \in Widgets : destroyed[w]

\* C17: a step changes what one widget owns at most, and a widget that
\* was disposed while a sibling still awaits the script emits nothing more
\* on its channels.
C17_WidgetsIsolated ==
    [][/\ \A a \in Widgets : \A b \in Widgets \ {a} : Untouched(a) \/ Untouched(b)
       /\ \A a \in Widgets : \A b \in Widgets \ {a} :
            (destroyed[a] /\ wait[b] = "pending" /\ ~destroyed[b])
                => SelectSeq(out', LAMBDA m : m.w = a) = EmissionsOf(a)]_vars

\* The part of C17 that is about the siblings alone.
C17_FrameOnly ==
    [][\A a \in Widgets : \A b \in Widgets \ {a} : Untouched(a) \/ Untouched(b)]_vars

\* C18: ready is the first emission on the channels of a widget, and a
\* change set of the point delivered from inside the ready subscriber is
\* reconciled against the player just constructed.
C18_StoredThenReadyThenEvents ==
    /\ [](\A w \in Widgets :
            EmissionsOf(w) # <<>> => EmissionsOf(w)[1].channel = "ready")
    /\ [][\A w \in Widgets :
            (player[w] = NoPlayer /\ player'[w] # NoPlayer /\ nchanges' = nchanges + 1)
                => players'[player'[w]].calls = <<MoveTo(input'[w]["point"])>>]_vars

\* C18 witness: the player of a widget was constructed, its ready
\* subscriber changed the point, the player was moved there, and an event
\* of the player was republished after ready.
C18_Witness ==
    \E w \in Widgets :
        /\ player[w] # NoPlayer
        /\ nchanges = 1
        /\ locate[w].point = "p1"
        /\ input[w]["point"] = "p2"
        /\ players[player[w]].calls = <<MoveTo("p2")>>
        /\ Len(EmissionsOf(w)) = 2

====
